---- MODULE Spec2Model ----
(***************************************************************************)
(* A model of the dag-cbor link extractor of src/src/lib.rs: the recursive *)
(* descent `references` over a seekable byte stream (std::io::Cursor),     *)
(* the link parser `read_link`, the varint decoder and the length          *)
(* resolver, driven as the test `references1` drives them: one call per    *)
(* input of a list of inputs.                                              *)
(*                                                                         *)
(* Number representations (TLC's integers are 32 bits wide):               *)
(*   - a stream position, a length and a seek offset are 64-bit words,     *)
(*     kept as their 8 big-endian bytes;                                   *)
(*   - a codec id (the varint's u64) is the set of its one bits, a subset  *)
(*     of 0..63, so that `|` is set union and `<<` a translation.          *)
(* The host is a 64-bit target (usize is u64).                             *)
(***************************************************************************)
EXTENDS Integers, Sequences, FiniteSets, TLC

VARIABLES
    scn,      \* the scenario under test: the inputs and what they were built from
    todo,     \* the inputs the test loop has not yet started
    log,      \* the outcomes of the calls the test loop has finished
    data,     \* the bytes of the stream of the current call (the Cursor's buffer)
    pos,      \* the Cursor's position (u64)
    stack,    \* the frames of `references` waiting for a child item
    pc,       \* "item": about to read an item header; "cont": an item was
              \* consumed; "done": the top-level call returned
    res,      \* the accumulator `res` of the current call
    result,   \* the value the top-level call returned, "Running" before
    calls     \* history: how many times `references` was entered in this call

vars == <<scn, todo, log, data, pos, stack, pc, res, result, calls>>

----------------------------------------------------------------------------
(* 64-bit words as 8 big-endian bytes                                      *)

\* A small natural number as a u64.
U64(n) ==
    <<0, 0, 0, 0, (n \div 16777216) % 256, (n \div 65536) % 256,
      (n \div 256) % 256, n % 256>>

\* u16/u32/u64::from_be_bytes followed by `as usize`: the value of the k
\* bytes read, zero-extended to the 64 bits of usize.
from_be_bytes(buf) ==
    [i \in 1..8 |-> IF i <= 8 - Len(buf) THEN 0 ELSE buf[i - (8 - Len(buf))]]

\* Whether a word is below 2^31, and then its value.
IsSmall(w) == w[1] = 0 /\ w[2] = 0 /\ w[3] = 0 /\ w[4] = 0 /\ w[5] < 128

ToNat(w) == w[5] * 16777216 + w[6] * 65536 + w[7] * 256 + w[8]

RECURSIVE WordLess(_, _, _)
\* a < b, comparing the bytes from the most significant one.
WordLess(a, b, i) ==
    IF i > 8 THEN FALSE
    ELSE IF a[i] # b[i] THEN a[i] < b[i]
    ELSE WordLess(a, b, i + 1)

RECURSIVE AddBytes(_, _, _, _)
\* The sum of two words from byte i down to the first, with the carry into
\* byte i: the carry out, then the bytes of the wrapped sum.
AddBytes(a, b, i, carry) ==
    IF i = 0 THEN <<carry>>
    ELSE Append(AddBytes(a, b, i - 1, (a[i] + b[i] + carry) \div 256),
                (a[i] + b[i] + carry) % 256)

\* `len as i64` (and the literal offsets): the word's two's complement
\* reading is negative when its top bit is set.
IsNegative(off) == off[1] >= 128

\* The offset -1 as an i64.
MinusOne == <<255, 255, 255, 255, 255, 255, 255, 255>>

----------------------------------------------------------------------------
(* Results                                                                 *)

Ok == [tag |-> "Ok", arg |-> 0]
Running == [tag |-> "Running", arg |-> 0]
Err(tag) == [tag |-> tag, arg |-> 0]
ErrByte(tag, b) == [tag |-> tag, arg |-> b]

\* An index out of range, a split past the end or an overflowing shift: the
\* call does not return a Result at all.
Panic == [tag |-> "Panic", arg |-> 0]

----------------------------------------------------------------------------
(* The stream: std::io::Cursor over the input                              *)

\* Cursor::seek(SeekFrom::Current(off)): u64::checked_add_signed; a position
\* past the end of the buffer is not an error, a negative or overflowing one
\* is InvalidInput, which From<io::Error> turns into IoError.
seek(p, off) ==
    LET r == AddBytes(p, off, 8, 0)
        fits == IF IsNegative(off) THEN r[1] = 1 ELSE r[1] = 0
    IN  IF fits THEN [result |-> Ok, pos |-> Tail(r)]
        ELSE [result |-> Err("IoError"), pos |-> p]

\* Read::read_exact of k bytes at position p of stream d: the bytes and the
\* position after them, or UnexpectedEof (the Cursor is then left at the end).
read_exact(d, p, k) ==
    IF IsSmall(p) /\ ToNat(p) + k <= Len(d)
    THEN [result |-> Ok, bytes |-> SubSeq(d, ToNat(p) + 1, ToNat(p) + k),
          pos |-> U64(ToNat(p) + k)]
    ELSE [result |-> Err("UnexpectedEof"), bytes |-> <<>>, pos |-> U64(Len(d))]

\* read_bytes: r.take(len).read_to_end(buf), then the length check. The
\* bytes that are there are consumed even when they are too few.
read_bytes(d, p, len) ==
    LET avail == IF IsSmall(p) /\ ToNat(p) <= Len(d) THEN Len(d) - ToNat(p) ELSE 0
    IN  IF avail >= len
        THEN [result |-> Ok, bytes |-> SubSeq(d, ToNat(p) + 1, ToNat(p) + len),
              pos |-> U64(ToNat(p) + len)]
        ELSE [result |-> Err("UnexpectedEof"), bytes |-> <<>>,
              pos |-> IF avail > 0 THEN U64(Len(d)) ELSE p]

----------------------------------------------------------------------------
(* The varint decoder                                                      *)

\* The one bits of a byte value, as bit positions.
BitsOf(b) == {j \in 0..7 : (b \div (2 ^ j)) % 2 = 1}

\* value |= bits << shift, in 64 bits: the bits moved past bit 63 are lost.
ShiftOr(value, bits, shift) ==
    value \cup {j + shift : j \in {k \in BitsOf(bits) : k + shift <= 63}}

\* A decoder that gives up one bit early.
VarintShiftLimit_Early == 64 - 1

\* The first shift at which the decoder gives up.
VarintShiftLimit == 64

RECURSIVE varint_loop(_, _, _)
\* One iteration of the loop of parse_u64_varint and the ones after it.
varint_loop(input, value, shift) ==
    IF input = <<>> \/ shift >= 64 THEN [result |-> Panic]
    ELSE LET byte == input[1]
             value2 == ShiftOr(value, byte % 128, shift)
         IN  IF byte < 128
             THEN [result |-> Ok, value |-> value2, rest |-> Tail(input)]
             ELSE IF shift + 7 >= VarintShiftLimit
             THEN [result |-> Err("InvalidVarint")]
             ELSE varint_loop(Tail(input), value2, shift + 7)

parse_u64_varint(input) == varint_loop(input, {}, 0)

----------------------------------------------------------------------------
(* The link parser                                                         *)

\* The CBOR tag number that marks a link.
LinkTag == 42

\* The header of a byte string with a one-byte length.
Bytes8Header == 88

\* The least length of the byte string of a link.
MinCidLen == 32

\* The length of a blake3 hash.
HashLen == 32

\* A length check that only asks for the version pair and one more byte.
cid_too_short_3(bytes) == Len(bytes) < 3

\* bytes.len() < 32
cid_too_short(bytes) == Len(bytes) < MinCidLen

\* A version check that looks at the first byte only.
version_ok_first(version_header) == version_header[1] = 0

\* version_header != [0, 1], negated
version_ok(version_header) == version_header = <<0, 1>>

\* mh_header != [0x1e, 0x20], negated
mh_header_ok(mh_header) == mh_header = <<30, 32>>

\* A hash length check that accepts a longer hash.
hash_len_atleast(rest) == Len(rest) >= HashLen

\* rest.len() != 32, negated
hash_len_ok(rest) == Len(rest) = HashLen

\* read_link from the byte string's content on: the checks of the CID.
parse_cid(bytes) ==
    IF bytes = <<>> THEN [result |-> Panic]
    ELSE IF bytes[1] # 0 THEN [result |-> ErrByte("InvalidCidPrefix", bytes[1])]
    ELSE IF cid_too_short(bytes) THEN [result |-> Err("LengthOutOfRange")]
    ELSE IF Len(bytes) < 2 THEN [result |-> Panic]
    ELSE IF ~version_ok(SubSeq(bytes, 1, 2)) THEN [result |-> Err("InvalidCidVersion")]
    ELSE LET v == parse_u64_varint(SubSeq(bytes, 3, Len(bytes)))
         IN  IF v.result # Ok THEN [result |-> v.result]
             ELSE IF Len(v.rest) < 2 THEN [result |-> Panic]
             ELSE IF ~mh_header_ok(SubSeq(v.rest, 1, 2))
             THEN [result |-> Err("InvalidHashAlgorithm")]
             ELSE IF ~hash_len_ok(SubSeq(v.rest, 3, Len(v.rest)))
             THEN [result |-> Err("InvalidHashLength")]
             ELSE [result |-> Ok,
                   link |-> [codec |-> v.value, hash |-> SubSeq(v.rest, 3, Len(v.rest))]]

----------------------------------------------------------------------------
(* The length resolver                                                     *)

\* read_len: the length that selector `major` names, read at position p.
read_len(d, p, major) ==
    IF major <= 23 THEN [result |-> Ok, len |-> U64(major), pos |-> p]
    ELSE IF major \in 24..27
    THEN LET r == read_exact(d, p, 2 ^ (major - 24))
         IN  IF r.result # Ok THEN [result |-> r.result, pos |-> r.pos]
             ELSE [result |-> Ok, len |-> from_be_bytes(r.bytes), pos |-> r.pos]
    ELSE [result |-> ErrByte("UnexpectedCode", major), pos |-> p]

----------------------------------------------------------------------------
(* The reference extractor                                                 *)

\* The bytes `references` skips after a header of major type 0, 1 or 7:
\* 0 for an inline value, 1, 2, 4 or 8 for a value that follows, and -1 for
\* a header of another kind.
fixed_skip(major) ==
    IF major \in 0..23 \/ major \in 32..55 \/ major \in 244..247 THEN 0
    ELSE IF major \in {24, 56, 248} THEN 1
    ELSE IF major \in {25, 57, 249} THEN 2
    ELSE IF major \in {26, 58, 250} THEN 4
    ELSE IF major \in {27, 59, 251} THEN 8
    ELSE -1

IsString(major) == major \in 64..91 \/ major \in 96..123
IsArray(major) == major \in 128..155
IsMap(major) == major \in 160..187

\* The break byte that ends an indefinite-length container.
Break == 255

\* A loop that does not give the lookahead byte back.
unread_none == U64(0)

\* The offset of the seek that un-reads the lookahead byte.
unread_offset == MinusOne

\* A push at the front of the accumulator.
push_front(r, link) == <<link>> \o r

\* res.push(link)
push(r, link) == Append(r, link)

\* A frame of `references` that waits for a child: the container or tag it
\* is in, the declared length, the children started so far, and for a map
\* whether the key of the current pair has been read.
Frame(kind, len) == [kind |-> kind, len |-> len, i |-> 0, half |-> 0]

Top == stack[Len(stack)]
Pop == SubSeq(stack, 1, Len(stack) - 1)
SetTop(f) == [stack EXCEPT ![Len(stack)] = f]

\* The most calls of `references` the history counts.
MaxCalls == 40

\* The history of calls after one more call (it stops counting at MaxCalls).
Entered == IF calls < MaxCalls THEN calls + 1 ELSE calls

\* The header byte of the item at the current position. (The actions bind
\* what they read with \E over a one-element set: the value is computed
\* once.)
Header == read_exact(data, pos, 1)

\* An error leaves through every frame (the `?` of each call).
Fail(e, p) ==
    /\ result' = e
    /\ pc' = "done"
    /\ stack' = <<>>
    /\ pos' = p

\* The item is consumed: back to the frame that asked for it.
Consumed(p) ==
    /\ pc' = "cont"
    /\ pos' = p
    /\ UNCHANGED <<stack, result>>

\* line 186: read_u8 finds the stream at its end.
ItemEof ==
    /\ pc = "item"
    /\ \E h \in {Header} :
          /\ h.result # Ok
          /\ Fail(h.result, h.pos)
    /\ calls' = Entered
    /\ UNCHANGED <<scn, todo, log, data, res>>

\* lines 189-216 and 279-291: an integer, a simple value or a float.
SkipFixed ==
    /\ pc = "item"
    /\ \E h \in {Header} :
          /\ h.result = Ok
          /\ fixed_skip(h.bytes[1]) >= 0
          /\ \E s \in {seek(h.pos, U64(fixed_skip(h.bytes[1])))} :
                IF fixed_skip(h.bytes[1]) = 0 THEN Consumed(h.pos)
                ELSE IF s.result = Ok THEN Consumed(s.pos)
                ELSE Fail(s.result, s.pos)
    /\ calls' = Entered
    /\ UNCHANGED <<scn, todo, log, data, res>>

\* lines 219-228: a byte string or a text string.
SkipString ==
    /\ pc = "item"
    /\ \E h \in {Header} :
          /\ h.result = Ok
          /\ IsString(h.bytes[1])
          /\ \E l \in {read_len(data, h.pos, h.bytes[1] % 32)} :
                IF l.result # Ok THEN Fail(l.result, l.pos)
                ELSE \E s \in {seek(l.pos, l.len)} :
                        IF s.result = Ok THEN Consumed(s.pos)
                        ELSE Fail(s.result, s.pos)
    /\ calls' = Entered
    /\ UNCHANGED <<scn, todo, log, data, res>>

\* lines 231-232 and 249-250: the header of a definite-length array or map.
EnterDefinite ==
    /\ pc = "item"
    /\ \E h \in {Header} :
          /\ h.result = Ok
          /\ h.bytes[1] \in (128..155) \cup (160..187)
          /\ \E l \in {read_len(data, h.pos, h.bytes[1] % 32)} :
                IF l.result # Ok THEN Fail(l.result, l.pos)
                ELSE /\ stack' = Append(stack, Frame(IF IsArray(h.bytes[1]) THEN "array"
                                                     ELSE "map", l.len))
                     /\ pc' = "cont"
                     /\ pos' = l.pos
                     /\ UNCHANGED result
    /\ calls' = Entered
    /\ UNCHANGED <<scn, todo, log, data, res>>

\* lines 239 and 258: the header of an indefinite-length array or map.
EnterIndefinite ==
    /\ pc = "item"
    /\ \E h \in {Header} :
          /\ h.result = Ok
          /\ h.bytes[1] \in {159, 191}
          /\ stack' = Append(stack, Frame(IF h.bytes[1] = 159 THEN "iarray" ELSE "imap", U64(0)))
          /\ pos' = h.pos
    /\ pc' = "cont"
    /\ calls' = Entered
    /\ UNCHANGED <<scn, todo, log, data, res, result>>

\* read_link at position p, and line 272: the link it returns is pushed, the
\* error it returns ends the call.
read_link(p) ==
    \E ty \in {read_exact(data, p, 1)} :
        IF ty.result # Ok THEN Fail(ty.result, ty.pos) /\ UNCHANGED res
        ELSE IF ty.bytes[1] # Bytes8Header
        THEN Fail(ErrByte("UnknownTag", ty.bytes[1]), ty.pos) /\ UNCHANGED res
        ELSE \E len \in {read_exact(data, ty.pos, 1)} :
            IF len.result # Ok THEN Fail(len.result, len.pos) /\ UNCHANGED res
            ELSE IF len.bytes[1] = 0
            THEN Fail(Err("LengthOutOfRange"), len.pos) /\ UNCHANGED res
            ELSE \E b \in {read_bytes(data, len.pos, len.bytes[1])} :
                IF b.result # Ok THEN Fail(b.result, b.pos) /\ UNCHANGED res
                ELSE \E c \in {parse_cid(b.bytes)} :
                    IF c.result # Ok THEN Fail(c.result, b.pos) /\ UNCHANGED res
                    ELSE Consumed(b.pos) /\ res' = push(res, c.link)

\* lines 269-276: a tag; tag 42 is a link, any other tag wraps an item.
Tag ==
    /\ pc = "item"
    /\ \E h \in {Header} :
          /\ h.result = Ok
          /\ h.bytes[1] = 216
          /\ \E t \in {read_exact(data, h.pos, 1)} :
                IF t.result # Ok THEN Fail(t.result, t.pos) /\ UNCHANGED res
                ELSE IF t.bytes[1] = LinkTag THEN read_link(t.pos)
                ELSE /\ stack' = Append(stack, Frame("tag", U64(0)))
                     /\ pc' = "item"
                     /\ pos' = t.pos
                     /\ UNCHANGED <<res, result>>
    /\ calls' = Entered
    /\ UNCHANGED <<scn, todo, log, data>>

\* line 292: any other header.
Unexpected ==
    /\ pc = "item"
    /\ \E h \in {Header} :
          /\ h.result = Ok
          /\ fixed_skip(h.bytes[1]) < 0
          /\ ~IsString(h.bytes[1])
          /\ ~IsArray(h.bytes[1])
          /\ ~IsMap(h.bytes[1])
          /\ h.bytes[1] \notin {159, 191, 216}
          /\ Fail(ErrByte("UnexpectedCode", h.bytes[1]), h.pos)
    /\ calls' = Entered
    /\ UNCHANGED <<scn, todo, log, data, res>>

\* lines 233-235: `for _ in 0..len` of an array: the next child or the end.
ArrayLoop ==
    /\ pc = "cont"
    /\ stack # <<>>
    /\ Top.kind = "array"
    /\ IF WordLess(U64(Top.i), Top.len, 1)
       THEN /\ stack' = SetTop([Top EXCEPT !.i = @ + 1])
            /\ pc' = "item"
       ELSE /\ stack' = Pop
            /\ pc' = "cont"
    /\ UNCHANGED <<scn, todo, log, data, pos, res, result, calls>>

\* A map loop that reads one item per pair.
MapLoop_KeysOnly ==
    /\ pc = "cont"
    /\ stack # <<>>
    /\ stack[Len(stack)].kind = "map"
    /\ IF WordLess(U64(stack[Len(stack)].i), stack[Len(stack)].len, 1)
       THEN /\ stack' = [stack EXCEPT ![Len(stack)].i = @ + 1]
            /\ pc' = "item"
       ELSE /\ stack' = SubSeq(stack, 1, Len(stack) - 1)
            /\ pc' = "cont"
    /\ UNCHANGED <<scn, todo, log, data, pos, res, result, calls>>

\* lines 251-254: `for _ in 0..len` of a map: the key, then the value.
MapLoop ==
    /\ pc = "cont"
    /\ stack # <<>>
    /\ Top.kind = "map"
    /\ IF Top.half = 1
       THEN /\ stack' = SetTop([Top EXCEPT !.half = 0])
            /\ pc' = "item"
       ELSE IF WordLess(U64(Top.i), Top.len, 1)
       THEN /\ stack' = SetTop([Top EXCEPT !.i = @ + 1, !.half = 1])
            /\ pc' = "item"
       ELSE /\ stack' = Pop
            /\ pc' = "cont"
    /\ UNCHANGED <<scn, todo, log, data, pos, res, result, calls>>

\* lines 240-244 and 259-263: the head of the loop of an indefinite-length
\* container: peek a byte; the break ends the container, any other byte is
\* given back by a seek.
Peek ==
    \E b \in {read_exact(data, pos, 1)} :
        IF b.result # Ok THEN Fail(b.result, b.pos)
        ELSE IF b.bytes[1] = Break
        THEN /\ stack' = Pop
             /\ pc' = "cont"
             /\ pos' = b.pos
             /\ UNCHANGED result
        ELSE \E s \in {seek(b.pos, unread_offset)} :
                IF s.result # Ok THEN Fail(s.result, s.pos)
                ELSE /\ stack' = SetTop([Top EXCEPT !.half = IF Top.kind = "imap" THEN 1 ELSE 0])
                     /\ pc' = "item"
                     /\ pos' = s.pos
                     /\ UNCHANGED result

\* lines 239-246 and 258-266: the loop of an indefinite-length container:
\* after the peek an item is read; for a map, a second one follows it
\* without a peek.
IndefiniteLoop ==
    /\ pc = "cont"
    /\ stack # <<>>
    /\ Top.kind \in {"iarray", "imap"}
    /\ IF Top.kind = "imap" /\ Top.half = 1
       THEN /\ stack' = SetTop([Top EXCEPT !.half = 0])
            /\ pc' = "item"
            /\ UNCHANGED <<pos, result>>
       ELSE Peek
    /\ UNCHANGED <<scn, todo, log, data, res, calls>>

\* line 274: the item a tag wraps was consumed, and so is the tag.
TagReturn ==
    /\ pc = "cont"
    /\ stack # <<>>
    /\ Top.kind = "tag"
    /\ stack' = Pop
    /\ UNCHANGED <<scn, todo, log, data, pos, pc, res, result, calls>>

\* line 294: the top-level call returns Ok(()).
Return ==
    /\ pc = "cont"
    /\ stack = <<>>
    /\ pc' = "done"
    /\ result' = Ok
    /\ UNCHANGED <<scn, todo, log, data, pos, stack, res, calls>>

\* lines 329-333: the caller's loop over its inputs: the next input gets a
\* new Cursor at position 0 and its own accumulator. (The caller modelled
\* here goes on after a failed call, where the test would unwrap.)
NextInput ==
    /\ pc = "done"
    /\ todo # <<>>
    /\ log' = Append(log, [result |-> result, res |-> res, pos |-> pos, calls |-> calls])
    /\ data' = Head(todo)
    /\ todo' = Tail(todo)
    /\ pos' = U64(0)
    /\ stack' = <<>>
    /\ pc' = "item"
    /\ res' = scn.res0
    /\ result' = Running
    /\ calls' = 0
    /\ UNCHANGED scn

----------------------------------------------------------------------------
(* The inputs                                                              *)

\* lines 310-327: the two sample blocks of the test.
SampleBlock1 ==
    <<111, 251, 216, 228, 21, 68, 75, 89, 64, 214, 254, 250, 207, 100, 185,
      34, 173, 128, 185, 93, 235, 206, 129, 41, 49, 116, 90, 217, 181, 155,
      37, 101, 234, 8, 180, 109, 182, 218, 80, 82, 214, 135, 140, 7, 77,
      79, 62, 112, 93, 26, 132, 86, 209, 174, 147, 75, 56, 182, 46, 67,
      110, 65, 63, 190, 251, 34, 132, 165, 214, 40, 226, 207, 149, 23, 34,
      192, 79, 241, 159, 242, 23, 252, 240, 54, 15, 184, 210, 123, 85, 192,
      171, 227, 120, 152, 78, 13, 7, 190, 235, 150, 79, 159, 64, 22, 64,
      143, 160, 198, 107, 155, 244, 69, 181, 51, 67, 190, 82, 18, 144, 185,
      152, 94, 48, 214, 92, 33, 22, 184, 82, 171, 52, 20, 214, 93, 100, 0,
      220, 65, 18, 237, 39, 143, 131, 239, 195, 94, 89, 163, 123, 62, 182,
      39, 54, 222, 230, 167, 82, 195, 49, 215, 143, 23, 109, 167, 241, 173,
      155, 181, 237>>

SampleBlock2 ==
    <<165, 100, 116, 121, 112, 101, 108, 119, 110, 102, 115, 47, 112, 117,
      98, 47, 100, 105, 114, 103, 118, 101, 114, 115, 105, 111, 110, 101,
      48, 46, 50, 46, 48, 104, 109, 101, 116, 97, 100, 97, 116, 97, 162,
      103, 99, 114, 101, 97, 116, 101, 100, 26, 100, 62, 221, 235, 104,
      109, 111, 100, 105, 102, 105, 101, 100, 26, 100, 62, 221, 235, 104,
      112, 114, 101, 118, 105, 111, 117, 115, 129, 216, 42, 88, 37, 0, 1,
      113, 30, 32, 69, 201, 16, 232, 110, 100, 247, 138, 153, 221, 233, 35,
      46, 89, 120, 222, 64, 130, 62, 170, 66, 115, 47, 247, 163, 129, 73,
      131, 214, 150, 158, 115, 104, 117, 115, 101, 114, 108, 97, 110, 100,
      161, 100, 116, 101, 115, 116, 216, 42, 88, 37, 0, 1, 113, 30, 32,
      130, 168, 252, 35, 140, 154, 5, 226, 53, 31, 140, 234, 164, 229, 175,
      44, 219, 57, 168, 149, 246, 233, 41, 130, 122, 38, 20, 230, 18, 57,
      212, 124>>

\* A 32-byte hash: the bytes seed+1, seed+2, ...
HashOf(seed) == [i \in 1..32 |-> (seed + i) % 256]

\* The value of a set of bit positions below 8.
ByteOfBits(S) ==
    (IF 0 \in S THEN 1 ELSE 0) + (IF 1 \in S THEN 2 ELSE 0)
    + (IF 2 \in S THEN 4 ELSE 0) + (IF 3 \in S THEN 8 ELSE 0)
    + (IF 4 \in S THEN 16 ELSE 0) + (IF 5 \in S THEN 32 ELSE 0)
    + (IF 6 \in S THEN 64 ELSE 0) + (IF 7 \in S THEN 128 ELSE 0)

\* The unsigned LEB128 encoding of a u64 (given by its one bits): 7 bits per
\* byte from the least significant group on, the high bit set on every byte
\* but the last.
EncodeVarint(bits) ==
    LET top == IF bits = {} THEN 0 ELSE CHOOSE m \in bits : \A k \in bits : k <= m
        n == top \div 7 + 1
    IN  [i \in 1..n |->
            ByteOfBits({j \in 0..6 : 7 * (i - 1) + j \in bits})
            + (IF i < n THEN 128 ELSE 0)]

\* A tag-42 item: the tag, a byte string with a one-byte length, and in it
\* the version pair, the codec's varint, the multihash header and the hash.
LinkItem(ver, vb, mh, hash) ==
    <<216, 42, 88, Len(ver) + Len(vb) + Len(mh) + Len(hash)>> \o ver \o vb \o mh \o hash

GoodLink(codec, hash) == LinkItem(<<0, 1>>, EncodeVarint(codec), <<30, 32>>, hash)

\* Codec ids: 0, 0x71, 127, 128, 2^32, 2^63 and 2^64 - 1.
Codecs == {{}, {0, 4, 5, 6}, 0..6, {7}, {32}, {63}, 0..63}

DagCbor == {0, 4, 5, 6}

Hashes == {HashOf(0), HashOf(200)}

\* What the caller's accumulator holds before the call.
Res0s == {<<>>, <<[codec |-> {0, 2}, hash |-> HashOf(90)]>>}

----------------------------------------------------------------------------
(* Well-formed items, with what a traversal of each must find: the links in *)
(* it in pre-order, the calls of `references` it takes, and whether the     *)
(* extractor accepts it.                                                    *)

Link1 == [codec |-> DagCbor, hash |-> HashOf(0)]
Link2 == [codec |-> {7}, hash |-> HashOf(200)]

Leaf(bytes) == [bytes |-> bytes, links |-> <<>>, nodes |-> 1, ok |-> TRUE]

\* A well-formed CBOR item the extractor rejects at its header.
Rejected(bytes) == [bytes |-> bytes, links |-> <<>>, nodes |-> 1, ok |-> FALSE]

LinkOf(l) == [bytes |-> GoodLink(l.codec, l.hash), links |-> <<l>>, nodes |-> 1, ok |-> TRUE]

Tagged(t, c) ==
    [bytes |-> <<216, t>> \o c.bytes, links |-> c.links, nodes |-> c.nodes + 1, ok |-> c.ok]

RECURSIVE BytesOf(_)
BytesOf(cs) == IF cs = <<>> THEN <<>> ELSE Head(cs).bytes \o BytesOf(Tail(cs))

RECURSIVE LinksOf(_)
\* The links met before the traversal of the children ends or fails.
LinksOf(cs) ==
    IF cs = <<>> THEN <<>>
    ELSE IF Head(cs).ok THEN Head(cs).links \o LinksOf(Tail(cs))
    ELSE Head(cs).links

RECURSIVE NodesOf(_)
NodesOf(cs) ==
    IF cs = <<>> THEN 0
    ELSE IF Head(cs).ok THEN Head(cs).nodes + NodesOf(Tail(cs))
    ELSE Head(cs).nodes

AllOk(cs) == \A i \in 1..Len(cs) : cs[i].ok

\* The header of a definite-length container: base 128 for an array of n
\* items, 160 for a map of n pairs; `wide` puts n in a byte of its own.
DefiniteHeader(base, n, wide) == IF wide THEN <<base + 24, n>> ELSE <<base + n>>

Container(kind, cs, wide) ==
    IF kind = "array" THEN DefiniteHeader(128, Len(cs), wide) \o BytesOf(cs)
    ELSE IF kind = "map" THEN DefiniteHeader(160, Len(cs) \div 2, wide) \o BytesOf(cs)
    ELSE IF kind = "iarray" THEN <<159>> \o BytesOf(cs) \o <<Break>>
    ELSE <<191>> \o BytesOf(cs) \o <<Break>>

Nested(kind, cs) ==
    [bytes |-> Container(kind, cs, FALSE), links |-> LinksOf(cs),
     nodes |-> 1 + NodesOf(cs), ok |-> AllOk(cs)]

\* One item or more of every major type the extractor accepts.
Items ==
    { Leaf(<<5>>), Leaf(<<24, 100>>), Leaf(<<25, 1, 2>>), Leaf(<<26, 1, 2, 3, 4>>),
      Leaf(<<27, 1, 2, 3, 4, 5, 6, 7, 8>>),
      Leaf(<<32>>), Leaf(<<56, 100>>), Leaf(<<57, 1, 2>>), Leaf(<<58, 1, 2, 3, 4>>),
      Leaf(<<59, 1, 2, 3, 4, 5, 6, 7, 8>>),
      Leaf(<<64>>), Leaf(<<67, 1, 2, 255>>), Leaf(<<88, 2, 9, 9>>), Leaf(<<89, 0, 2, 9, 9>>),
      Leaf(<<90, 0, 0, 0, 1, 9>>), Leaf(<<91, 0, 0, 0, 0, 0, 0, 0, 2, 9, 9>>),
      Leaf(<<97, 97>>), Leaf(<<120, 3, 97, 98, 99>>),
      Leaf(<<245>>), Leaf(<<248, 32>>), Leaf(<<249, 60, 0>>), Leaf(<<250, 63, 128, 0, 0>>),
      Leaf(<<251, 63, 240, 0, 0, 0, 0, 0, 0>>),
      LinkOf(Link1), LinkOf(Link2), Tagged(1, Leaf(<<5>>)), Tagged(1, LinkOf(Link1)),
      Nested("array", <<>>), Nested("array", <<Leaf(<<5>>), Leaf(<<65, 7>>)>>),
      Nested("array", <<LinkOf(Link1), Leaf(<<24, 100>>)>>),
      Nested("iarray", <<Leaf(<<5>>), Leaf(<<65, 7>>)>>),
      Nested("map", <<Leaf(<<97, 97>>), Leaf(<<24, 100>>)>>),
      Nested("map", <<Leaf(<<97, 97>>), LinkOf(Link2)>>),
      Nested("imap", <<Leaf(<<97, 97>>), Leaf(<<249, 60, 0>>)>>) }

\* The children the container scenarios are built from.
Children ==
    { Leaf(<<5>>), Leaf(<<65, 255>>), LinkOf(Link1), Tagged(1, LinkOf(Link2)),
      Nested("iarray", <<Leaf(<<24, 100>>)>>), Rejected(<<224>>),
      Rejected(<<216, 42, 5>>) }

\* The most children a container scenario has.
MaxChildren == 3

ChildSeqs == UNION {[1..n -> Children] : n \in 0..MaxChildren}

\* The byte after the container in a container scenario.
Trailer == <<Break>>

----------------------------------------------------------------------------
(* The scenarios                                                           *)

\* A well-formed link, alone in the stream.
LinkScenarios ==
    {[family |-> "link", inputs |-> <<GoodLink(c, h)>>, res0 |-> r, codec |-> c, hash |-> h] :
        c \in Codecs, h \in Hashes, r \in Res0s}

\* A link with byte `idx` of its version pair changed to `value`.
VersionScenarios ==
    {[family |-> "version",
      inputs |-> <<LinkItem([<<0, 1>> EXCEPT ![m[1]] = m[2]], EncodeVarint(DagCbor),
                            <<30, 32>>, HashOf(0))>>,
      res0 |-> <<>>, idx |-> m[1], value |-> m[2]] :
        m \in {x \in (1..2) \X (0..255) : x[2] # <<0, 1>>[x[1]]}}

\* A link whose hash has hl bytes, the byte string's length byte adjusted.
HashLenScenarios ==
    {[family |-> "hashlen",
      inputs |-> <<LinkItem(<<0, 1>>, EncodeVarint(m[1]), <<30, 32>>, [i \in 1..m[2] |-> i])>>,
      res0 |-> <<>>, hl |-> m[2], total |-> 4 + Len(EncodeVarint(m[1])) + m[2]] :
        m \in {x \in {DagCbor, 0..63} \X (0..250) :
                 x[2] # 32 /\ 4 + Len(EncodeVarint(x[1])) + x[2] <= 255}}

\* The most bytes of a varint scenario's varint.
MaxVarintLen == 11

\* A link whose codec is the varint vb: n - 1 equal continuation bytes and a
\* last byte.
VarintScenarios ==
    {[family |-> "varint",
      inputs |-> <<LinkItem(<<0, 1>>, [i \in 1..m[1] |-> IF i < m[1] THEN m[2] ELSE m[3]],
                            <<30, 32>>, HashOf(0))>>,
      res0 |-> <<>>, vb |-> [i \in 1..m[1] |-> IF i < m[1] THEN m[2] ELSE m[3]]] :
        m \in (1..MaxVarintLen) \X {128, 129, 255} \X {0, 1, 2, 127}}

\* A tag-42 byte string of any length 1..255: a prefix and a filling byte.
ContentScenarios ==
    {[family |-> "content",
      inputs |-> <<<<216, 42, 88, m[1]>> \o
                   [i \in 1..m[1] |-> IF i <= Len(m[2]) THEN m[2][i] ELSE m[3]]>>,
      res0 |-> <<>>] :
        m \in (1..255) \X {<<>>, <<0>>, <<0, 1>>, <<0, 1, 113, 30, 32>>} \X {0, 30, 128, 255}}

\* A well-formed item, whole.
WholeScenarios ==
    {[family |-> "whole", inputs |-> <<it.bytes>>, res0 |-> r, item |-> it] :
        it \in Items, r \in Res0s}

\* A well-formed item cut short: its first `cut` bytes.
TruncatedScenarios ==
    {[family |-> "truncated", inputs |-> <<SubSeq(m[1].bytes, 1, m[2])>>, res0 |-> <<>>,
      item |-> m[1], cut |-> m[2]] :
        m \in {x \in Items \X (0..64) : x[2] < Len(x[1].bytes)}}

\* The same children in a definite-length container and in the
\* indefinite-length one, each followed by a trailer.
PairScenarios ==
    {[family |-> "pair",
      inputs |-> <<Container(m[1], m[2], m[3]) \o Trailer,
                   Container("i" \o m[1], m[2], FALSE) \o Trailer>>,
      res0 |-> <<>>, kind |-> m[1], children |-> m[2]] :
        m \in {x \in {"array", "map"} \X ChildSeqs \X BOOLEAN :
                 x[1] = "map" => Len(x[2]) % 2 = 0}}

\* 8-byte lengths (u64, big-endian): 0, 1, 2^63 - 1, 2^63, 2^64 - 9,
\* 2^64 - 8 and 2^64 - 1.
BigLens ==
    { U64(0), U64(1), <<127, 255, 255, 255, 255, 255, 255, 255>>,
      <<128, 0, 0, 0, 0, 0, 0, 0>>, <<255, 255, 255, 255, 255, 255, 255, 247>>,
      <<255, 255, 255, 255, 255, 255, 255, 248>>, MinusOne }

\* A byte or text string with an 8-byte length and one byte after it, at the
\* top level or as the first child of a container.
BigLenScenarios ==
    {[family |-> "biglen",
      inputs |-> <<(IF m[1] = "top" THEN <<>>
                    ELSE IF m[1] = "array" THEN <<130>>
                    ELSE IF m[1] = "iarray" THEN <<159>> ELSE <<191>>)
                   \o <<m[2]>> \o m[3] \o <<7>>
                   \o (IF m[1] = "top" THEN <<>>
                       ELSE IF m[1] = "array" THEN <<5>>
                       ELSE IF m[1] = "iarray" THEN <<Break>> ELSE <<5, Break>>)>>,
      res0 |-> <<>>, ctx |-> m[1], len |-> m[3]] :
        m \in {"top", "array", "iarray", "imap"} \X {91, 123} \X BigLens}

\* The two sample blocks, one call each.
SampleScenarios ==
    {[family |-> "sample", inputs |-> <<SampleBlock1, SampleBlock2>>, res0 |-> <<>>]}

Scenarios ==
    LinkScenarios \cup VersionScenarios \cup HashLenScenarios \cup VarintScenarios
    \cup ContentScenarios \cup WholeScenarios \cup TruncatedScenarios
    \cup PairScenarios \cup BigLenScenarios \cup SampleScenarios

----------------------------------------------------------------------------
(* The specification                                                       *)

\* The caller is about to make its first call, on the first input of one of
\* the scenarios S.
InitOf(S) ==
    /\ scn \in S
    /\ todo = Tail(scn.inputs)
    /\ log = <<>>
    /\ data = Head(scn.inputs)
    /\ pos = U64(0)
    /\ stack = <<>>
    /\ pc = "item"
    /\ res = scn.res0
    /\ result = Running
    /\ calls = 0

Init == InitOf(Scenarios)

Next ==
    \/ ItemEof
    \/ SkipFixed
    \/ SkipString
    \/ EnterDefinite
    \/ EnterIndefinite
    \/ Tag
    \/ Unexpected
    \/ ArrayLoop
    \/ MapLoop
    \/ IndefiniteLoop
    \/ TagReturn
    \/ Return
    \/ NextInput

Spec == Init /\ [][Next]_vars

\* The scenarios of the check of termination: the strings with 8-byte
\* lengths, the well-formed items and the sample blocks.
TerminationScenarios == BigLenScenarios \cup WholeScenarios \cup SampleScenarios

\* The call is one thread running to completion: it always takes its next
\* step.
TermSpec == InitOf(TerminationScenarios) /\ [][Next]_vars /\ WF_vars(Next)

\* Every input of the scenario has been run.
Finished == pc = "done" /\ todo = <<>>

----------------------------------------------------------------------------
(* The claims                                                              *)

Done == pc = "done"

\* The last link of the accumulator.
LastLink == res[Len(res)]

\* C1: a well-formed tag-42 link (version pair {0,1}, the varint of any u64
\* codec id, multihash header {0x1e,0x20}, 32 hash bytes) makes `references`
\* succeed and append exactly one pair, the codec id and the hash bytes that
\* were encoded.
C1_WellFormedLink ==
    (scn.family = "link" /\ Done) =>
        /\ result = Ok
        /\ res = scn.res0 \o <<[codec |-> scn.codec, hash |-> scn.hash]>>

\* A link whose codec id is 2^64 - 1 (a 10-byte varint) was extracted after
\* an entry the caller had put in the accumulator.
C1_Witness ==
    /\ scn.family = "link" /\ Done /\ result = Ok
    /\ scn.codec = 0..63 /\ Len(scn.res0) = 1 /\ Len(res) = 2
    /\ LastLink.codec = 0..63

\* C2 as stated: both sample blocks decode, the first with 0 links and the
\* second with exactly 1 link.
C2_Original ==
    (scn.family = "sample" /\ Finished) =>
        /\ log[1].result = Ok /\ Len(log[1].res) = 0
        /\ result = Ok /\ Len(res) = 1

\* C2 as amended: both sample blocks decode, the first with 0 links and the
\* second with exactly 2 links, the dag-cbor links whose hashes are the 32
\* bytes at offsets 89 and 145 of the block.
C2_SampleBlocks ==
    (scn.family = "sample" /\ Finished) =>
        /\ log[1].result = Ok /\ log[1].res = <<>>
        /\ result = Ok
        /\ res = << [codec |-> DagCbor, hash |-> SubSeq(SampleBlock2, 90, 121)],
                    [codec |-> DagCbor, hash |-> SubSeq(SampleBlock2, 146, 177)] >>

\* Both sample blocks have been run and the second left two links.
C2_Witness ==
    /\ scn.family = "sample" /\ Finished /\ Len(log) = 1
    /\ result = Ok /\ Len(res) = 2 /\ calls = 18

\* C3: a well-formed item cut short before its end makes `references` return
\* UnexpectedEof, never success and never another error.
C3_TruncatedIsEof ==
    (scn.family = "truncated" /\ Done) => result = Err("UnexpectedEof")

\* The length N the header of a definite-length container declares.
DeclaredLen(input) == IF input[1] % 32 = 24 THEN input[2] ELSE input[1] % 32

\* C4: a definite-length array of N children (a map of N pairs) with
\* well-formed children takes the calls of its N (2N) children and no more,
\* and the indefinite-length encoding of the same children ends as the
\* definite-length one does: the same result, the same links in the same
\* order and, on success, the stream just past the container.
C4_IndefiniteAsDefinite ==
    (scn.family = "pair" /\ Finished) =>
        /\ log[1].result = result
        /\ log[1].res = res
        /\ log[1].calls = calls
        /\ result = Ok =>
              /\ log[1].pos = U64(Len(scn.inputs[1]) - Len(Trailer))
              /\ pos = U64(Len(scn.inputs[2]) - Len(Trailer))
        /\ AllOk(scn.children) =>
              /\ result = Ok
              /\ calls = 1 + NodesOf(scn.children)
        /\ (AllOk(scn.children) /\ \A i \in 1..Len(scn.children) : scn.children[i].nodes = 1) =>
              calls - 1 = IF scn.kind = "array" THEN DeclaredLen(scn.inputs[1])
                          ELSE 2 * DeclaredLen(scn.inputs[1])

\* A map of one pair whose key and value both hold a link was traversed in
\* both encodings.
C4_Witness ==
    /\ scn.family = "pair" /\ Finished /\ scn.kind = "map"
    /\ Len(scn.children) = 2 /\ result = Ok /\ log[1].result = Ok
    /\ Len(res) = 2 /\ calls = 4

\* C5 as stated: changing either byte of the version pair {0,1} of a valid
\* link makes `references` fail with InvalidCidVersion.
C5_Original ==
    (scn.family = "version" /\ Done) => result = Err("InvalidCidVersion")

\* C5 as amended: changing the second byte of the pair makes `references`
\* fail with InvalidCidVersion; changing the first byte to v makes it fail
\* with InvalidCidPrefix(v).
C5_VersionPair ==
    (scn.family = "version" /\ Done) =>
        /\ scn.idx = 2 => result = Err("InvalidCidVersion")
        /\ scn.idx = 1 => result = ErrByte("InvalidCidPrefix", scn.value)
        /\ res = scn.res0

\* A link whose version byte is 2 was refused with InvalidCidVersion.
C5_Witness ==
    /\ scn.family = "version" /\ Done /\ scn.idx = 2 /\ scn.value = 2
    /\ result = Err("InvalidCidVersion")

\* C6 as stated: a link valid but for the number of its hash bytes (not 32,
\* the length byte adjusted) makes `references` fail with InvalidHashLength.
C6_Original ==
    (scn.family = "hashlen" /\ Done) => result = Err("InvalidHashLength")

\* C6 as amended: such a link makes `references` fail with InvalidHashLength
\* when its byte string holds 32 bytes or more, and with LengthOutOfRange
\* when it holds fewer.
C6_HashLength ==
    (scn.family = "hashlen" /\ Done) =>
        /\ scn.total >= 32 => result = Err("InvalidHashLength")
        /\ scn.total < 32 => result = Err("LengthOutOfRange")
        /\ res = scn.res0

\* A link with a hash of 33 bytes was refused with InvalidHashLength.
C6_Witness ==
    /\ scn.family = "hashlen" /\ Done /\ scn.hl = 33
    /\ result = Err("InvalidHashLength")

\* The links of an item in pre-order, as far as a traversal that stopped
\* early may have got.
LinkPrefixes(links) == {SubSeq(links, 1, k) : k \in 0..Len(links)}

\* What a step may do to the accumulator: nothing, or append one pair while
\* reading a tag-42 item at the stream's position, the pair's hash being the
\* last 32 bytes read (or the caller starts its next call with its own
\* accumulator).
C7_Step ==
    \/ res' = res
    \/ pc = "done" /\ pc' = "item" /\ res' = scn.res0
    \/ /\ pc = "item" /\ pc' = "cont"
       /\ IsSmall(pos) /\ IsSmall(pos')
       /\ ToNat(pos) + 2 <= Len(data)
       /\ SubSeq(data, ToNat(pos) + 1, ToNat(pos) + 2) = <<216, LinkTag>>
       /\ ToNat(pos') <= Len(data)
       /\ res' = res \o <<res'[Len(res')]>>
       /\ res'[Len(res')].hash = SubSeq(data, ToNat(pos') - 31, ToNat(pos'))

\* What the accumulator holds: what the caller put in it, then the links of
\* the item in pre-order (all of them once the call has succeeded).
C7_State ==
    /\ Len(res) >= Len(scn.res0)
    /\ SubSeq(res, 1, Len(scn.res0)) = scn.res0
    /\ (scn.family = "whole" /\ Done) => result = Ok /\ res = scn.res0 \o scn.item.links
    /\ (scn.family = "whole" /\ ~Done) =>
          \E l \in LinkPrefixes(scn.item.links) : res = scn.res0 \o l
    /\ (scn.family = "truncated") =>
          \E l \in LinkPrefixes(scn.item.links) : res = scn.res0 \o l
    /\ (scn.family = "pair" /\ Done) => res = scn.res0 \o LinksOf(scn.children)

ExactSum(vb) ==
    UNION {{7 * (i - 1) + j : j \in BitsOf(vb[i] % 128)} : i \in 1..Len(vb)}

\* C8: the varint decoder either fails with InvalidVarint or returns the
\* exact value of the encoding; a value that does not fit in 64 bits is not
\* accepted wrapped or cut.
C8_NoWrap ==
    (scn.family = "varint" /\ Done) =>
        \/ result = Err("InvalidVarint")
        \/ result = Ok /\ LastLink.codec = ExactSum(scn.vb)

\* C9: every call of `references` on a finite stream returns.
C9_Terminates == <>Finished

ParseErrors ==
    {"UnexpectedEof", "UnknownTag", "InvalidCidPrefix", "LengthOutOfRange",
     "InvalidVarint", "InvalidCidVersion", "InvalidHashAlgorithm", "InvalidHashLength"}

\* C10: the link parser makes no access out of bounds: whatever the content
\* (1..255 bytes) of the byte string after a tag 42, read_link returns a
\* pair or a ParseError; the varint decoder stays inside the buffer, its
\* shift stays below 64 and 2 bytes are left for the multihash header.
C10_NoPanic ==
    /\ result # Panic
    /\ (scn.family = "content" /\ Done) =>
          \/ result = Ok /\ Len(res) = 1 /\ Len(LastLink.hash) = 32
          \/ result.tag \in ParseErrors /\ res = <<>>

\* A byte string of 32 bytes whose varint is continuation bytes to its end
\* was read to the decoder's limit and refused.
C10_Witness ==
    /\ scn.family = "content" /\ Done /\ Len(data) = 4 + 32
    /\ data[7] = 128 /\ result = Err("InvalidVarint")

====
